---- MODULE Spec2Model ----
(***************************************************************************)
(* Model of the chat bot of src/src/index.js: the access registry, the     *)
(* session gate, the encrypted client directory with its reload paths and  *)
(* the search over it.  Strings are sequences of one-character strings so  *)
(* that trim, startsWith, toLowerCase and includes are computed.           *)
(***************************************************************************)
EXTENDS Integers, Sequences, FiniteSets, TLC

(* ------------------------------ bounds --------------------------------- *)
\* refused access-code attempts in a row that are counted before saturating
MaxWrong == 2

(* --------------------------- string helpers ---------------------------- *)
Range(s) == {s[i] : i \in 1..Len(s)}

WhiteSpace == {" ", "\t"}

RECURSIVE TrimStart(_)
TrimStart(s) ==
  IF s = <<>> THEN <<>>
  ELSE IF Head(s) \in WhiteSpace THEN TrimStart(Tail(s)) ELSE s

RECURSIVE TrimEnd(_)
TrimEnd(s) ==
  IF s = <<>> THEN <<>>
  ELSE IF s[Len(s)] \in WhiteSpace THEN TrimEnd(SubSeq(s, 1, Len(s) - 1)) ELSE s

\* String.prototype.trim
Trim(s) == TrimEnd(TrimStart(s))

LowerChar(c) == IF c = "A" THEN "a" ELSE IF c = "B" THEN "b" ELSE c

\* String.prototype.toLowerCase
ToLowerCase(s) == [i \in 1..Len(s) |-> LowerChar(s[i])]

\* String.prototype.startsWith
StartsWith(s, p) == Len(p) <= Len(s) /\ SubSeq(s, 1, Len(p)) = p

\* String.prototype.includes
Includes(s, p) ==
  \E i \in 0..(Len(s) - Len(p)) : SubSeq(s, i + 1, i + Len(p)) = p

(* ------------------------------ constants ------------------------------ *)
ACCESS_CODE == <<"2", "2", "1", "7", "0", "3", "1", "3">>
ReloadToken == <<"/", "r", "e", "l", "o", "a", "d">>
StartToken == <<"/", "s", "t", "a", "r", "t">>
CommandPrefix == <<"/">>
ResultLimit == 5
\* Fuse threshold 0.35, in percent
FuseThreshold == 35
\* the 500 ms of the reload timer, in clock ticks
DebounceWindow == 2

(* ------------------------------- inputs -------------------------------- *)
\* chat identities, already in the string form of msg.chat.id.toString()
Ids == {"u1", "u2"}

\* message texts (msg.text || '')
Texts ==
  { <<>>,
    <<" ">>,
    ACCESS_CODE,
    <<" ">> \o ACCESS_CODE \o <<" ">>,
    ReloadToken,
    StartToken,
    <<"A">>,
    <<"a", "b", "x">> }

\* raw cells of a decrypted row: missing/null, or a string
NoCell == [t |-> "null", v |-> <<>>]
Cell(s) == [t |-> "str", v |-> s]
Row(n, m, c) == [name |-> n, manager |-> m, code |-> c]

\* rows of a decrypted array as another tool wrote them
OldRows ==
  << Row(Cell(<<" ", "a", "b", "c">>), Cell(<<"z">>), NoCell),
     Row(Cell(<<" ">>), Cell(<<"a">>), Cell(<<"1">>)),
     Row(Cell(<<"B", "A">>), NoCell, Cell(<<"2", " ">>)) >>

\* rows of the first sheet of the workbook, as sheet_to_json gives them
NewSheet ==
  << Row(Cell(<<" ", "a", "1">>), Cell(<<>>), Cell(<<>>)),
     Row(Cell(<<" ">>), Cell(<<"x">>), Cell(<<>>)),
     Row(Cell(<<"a", "2">>), Cell(<<>>), Cell(<<>>)),
     Row(Cell(<<"a", "3">>), Cell(<<>>), Cell(<<>>)),
     Row(Cell(<<"a", "0">>), Cell(<<>>), Cell(<<>>)),
     Row(Cell(<<"a", "7", "\t">>), NoCell, Cell(<<>>)),
     Row(Cell(<<"z", "a">>), Cell(<<"a", "b", " ">>), Cell(<<"\"">>)) >>

\* states of the registry file: absent, not a JSON array, or a JSON array
AuthFile(kind, ids) == [kind |-> kind, ids |-> ids]
AuthAbsent == AuthFile("absent", <<>>)
AuthCorrupt == AuthFile("corrupt", <<>>)
AuthArray(ids) == AuthFile("array", ids)
InitialAuthFiles == {AuthAbsent, AuthCorrupt, AuthArray(<<"u1">>)}

(* ------------------------ text, bytes and JSON ------------------------- *)
\* the characters of the model; a character's byte is its position here
Alphabet ==
  << " ", "\t", "\"", "\\", "[", "]", "{", "}", ":", ",",
     "a", "b", "c", "d", "e", "g", "l", "m", "n", "o", "r", "u", "x", "z",
     "A", "B", "0", "1", "2", "3", "7" >>

ByteMod == 256

\* Buffer.from(string) and buffer.toString('utf-8'), one byte per character
CodeOf(c) == CHOOSE i \in 1..Len(Alphabet) : Alphabet[i] = c
CharOf(b) == IF b \in 1..Len(Alphabet) THEN Alphabet[b] ELSE "?"
ToBytes(s) == [i \in 1..Len(s) |-> CodeOf(s[i])]
FromBytes(bs) == [i \in 1..Len(bs) |-> CharOf(bs[i])]

\* buffer.toString('base64') and Buffer.from(text, 'base64'): an invertible
\* text encoding of bytes, here two digits of base 16 per byte
Digits == << "0", "1", "2", "3", "4", "5", "6", "7",
             "8", "9", "A", "B", "C", "D", "E", "F" >>
DigitOf(c) == CHOOSE i \in 1..16 : Digits[i] = c
EncodeBase64(bs) ==
  [i \in 1..(2 * Len(bs)) |->
     IF i % 2 = 1 THEN Digits[(bs[(i + 1) \div 2] \div 16) + 1]
                  ELSE Digits[(bs[i \div 2] % 16) + 1]]
DecodeBase64(t) ==
  [i \in 1..(Len(t) \div 2) |->
     16 * (DigitOf(t[2 * i - 1]) - 1) + (DigitOf(t[2 * i]) - 1)]

Quote == "\""
Backslash == "\\"
NameKey == <<"n", "a", "m", "e">>
ManagerKey == <<"m", "a", "n", "a", "g", "e", "r">>
CodeKey == <<"c", "o", "d", "e">>
NullWord == <<"n", "u", "l", "l">>

\* Escape that copies every character
Escape_Plain(s) == s

RECURSIVE Escape(_)
\* the escapes of JSON.stringify inside a string
Escape(s) ==
  IF s = <<>> THEN <<>>
  ELSE (IF Head(s) \in {Quote, Backslash} THEN <<Backslash, Head(s)>>
        ELSE IF Head(s) = "\t" THEN <<Backslash, "t">>
        ELSE <<Head(s)>>) \o Escape(Tail(s))

StringifyString(s) == <<Quote>> \o Escape(s) \o <<Quote>>

\* a cell as a JSON value: null, or a string
StringifyCell(cell) ==
  IF cell.t = "null" THEN NullWord ELSE StringifyString(cell.v)

StringifyMember(key, cell) ==
  StringifyString(key) \o <<":">> \o StringifyCell(cell)

StringifyEntry(e) ==
  <<"{">> \o StringifyMember(NameKey, e.name) \o <<",">>
          \o StringifyMember(ManagerKey, e.manager) \o <<",">>
          \o StringifyMember(CodeKey, e.code) \o <<"}">>

RECURSIVE StringifyEntries(_)
StringifyEntries(rows) ==
  IF rows = <<>> THEN <<>>
  ELSE IF Len(rows) = 1 THEN StringifyEntry(rows[1])
  ELSE StringifyEntry(rows[1]) \o <<",">> \o StringifyEntries(Tail(rows))

\* JSON.stringify of an array of rows
Stringify(rows) == <<"[">> \o StringifyEntries(rows) \o <<"]">>

\* results of the parsing steps: what was read and the position after it
Parsed(val, next) == [ok |-> TRUE, val |-> val, next |-> next]
ParseError == [ok |-> FALSE, val |-> <<>>, next |-> 0]

At(s, i) == IF i \in 1..Len(s) THEN s[i] ELSE "end"

RECURSIVE ScanString(_, _, _)
\* the characters of a JSON string up to its closing quote
ScanString(s, i, acc) ==
  IF i > Len(s) THEN ParseError
  ELSE IF s[i] = Quote THEN Parsed(acc, i + 1)
  ELSE IF s[i] = Backslash
       THEN IF At(s, i + 1) \in {Quote, Backslash}
            THEN ScanString(s, i + 2, Append(acc, s[i + 1]))
            ELSE IF At(s, i + 1) = "t"
                 THEN ScanString(s, i + 2, Append(acc, "\t"))
                 ELSE ParseError
  ELSE ScanString(s, i + 1, Append(acc, s[i]))

\* a scanned string as the value of a member
StringCell(str) ==
  IF str.ok THEN Parsed([t |-> "str", v |-> str.val], str.next)
  ELSE ParseError

\* a JSON value of a member: a string or null, as a cell
ParseValue(s, i) ==
  IF At(s, i) = Quote THEN StringCell(ScanString(s, i + 1, <<>>))
  ELSE IF i + 3 <= Len(s) /\ SubSeq(s, i, i + 3) = NullWord
       THEN Parsed([t |-> "null", v |-> <<>>], i + 4)
       ELSE ParseError

\* entry[key] = cell for the three keys the program reads
WithMember(e, key, cell) ==
  IF key = NameKey THEN [e EXCEPT !.name = cell]
  ELSE IF key = ManagerKey THEN [e EXCEPT !.manager = cell]
  ELSE IF key = CodeKey THEN [e EXCEPT !.code = cell]
  ELSE e

RECURSIVE ParseMembers(_, _, _)
\* after a member: the closing brace, or a comma and the next member
AfterMember(s, i, e) ==
  IF At(s, i) = "}" THEN Parsed(e, i + 1)
  ELSE IF At(s, i) = "," THEN ParseMembers(s, i + 1, e)
  ELSE ParseError

\* after the value of the member named key
AfterValue(s, key, val, e) ==
  IF ~val.ok THEN ParseError
  ELSE AfterMember(s, val.next, WithMember(e, key, val.val))

\* after the name of a member: a colon and the value
AfterKey(s, key, e) ==
  IF ~key.ok \/ At(s, key.next) # ":" THEN ParseError
  ELSE AfterValue(s, key.val, ParseValue(s, key.next + 1), e)

\* the members of an object from position i to its closing brace
ParseMembers(s, i, e) ==
  IF At(s, i) # Quote THEN ParseError
  ELSE AfterKey(s, ScanString(s, i + 1, <<>>), e)

\* an object; a key it lacks reads as undefined
Undefined == [t |-> "null", v |-> <<>>]
EmptyEntry == [name |-> Undefined, manager |-> Undefined, code |-> Undefined]

ParseObject(s, i) ==
  IF At(s, i) # "{" THEN ParseError
  ELSE IF At(s, i + 1) = "}" THEN Parsed(EmptyEntry, i + 2)
  ELSE ParseMembers(s, i + 1, EmptyEntry)

RECURSIVE ParseElements(_, _, _)
\* after an element: the closing bracket, or a comma and the next element
AfterElement(s, obj, acc) ==
  IF ~obj.ok THEN ParseError
  ELSE IF At(s, obj.next) = "]"
       THEN Parsed(Append(acc, obj.val), obj.next + 1)
       ELSE IF At(s, obj.next) = ","
            THEN ParseElements(s, obj.next + 1, Append(acc, obj.val))
            ELSE ParseError

\* the elements of an array from position i to its closing bracket
ParseElements(s, i, acc) == AfterElement(s, ParseObject(s, i), acc)

\* a value that was read is the whole text
Complete(s, read, kind) ==
  IF read.ok /\ read.next = Len(s) + 1
  THEN [kind |-> kind, rows |-> IF kind = "array" THEN read.val ELSE <<>>]
  ELSE [kind |-> "error", rows |-> <<>>]

\* JSON.parse of the plaintext, as far as the program distinguishes values:
\* an array of objects, another value, or a SyntaxError
JSONParse(s) ==
  IF At(s, 1) = "["
  THEN IF At(s, 2) = "]"
       THEN Complete(s, Parsed(<<>>, 3), "array")
       ELSE Complete(s, ParseElements(s, 2, <<>>), "array")
  ELSE IF At(s, 1) = "{"
       THEN Complete(s, ParseObject(s, 1), "other")
       ELSE [kind |-> "error", rows |-> <<>>]

(* ------------------------------ the cipher ----------------------------- *)
\* the 32-byte key of DATA_SECRET, and another key
SecretBuffer == 11
OtherSecret == 12
\* values of crypto.randomBytes(12)
Nonces == {3, 4}

RECURSIVE WeightedSumOver(_, _, _)
\* the sum of i * bs[i] for i from lo to hi, over halves
WeightedSumOver(bs, lo, hi) ==
  IF lo > hi THEN 0
  ELSE IF lo = hi THEN (lo * bs[lo]) % ByteMod
  ELSE LET mid == (lo + hi) \div 2
       IN (WeightedSumOver(bs, lo, mid) + WeightedSumOver(bs, mid + 1, hi))
            % ByteMod

WeightedSum(bs) == WeightedSumOver(bs, 1, Len(bs))

\* aes-256-gcm as the library's contract: a key stream that depends on key
\* and nonce, and a tag over key, nonce and ciphertext
KeyStream(key, iv, i) == (31 * key + 17 * iv + 7 * i) % ByteMod
CipherUpdate(key, iv, plain) ==
  [i \in 1..Len(plain) |-> (plain[i] + KeyStream(key, iv, i)) % ByteMod]
DecipherUpdate(key, iv, data) ==
  [i \in 1..Len(data) |-> (data[i] + ByteMod - KeyStream(key, iv, i)) % ByteMod]
AuthTag(key, iv, data) == (13 * key + 5 * iv + WeightedSum(data)) % ByteMod

\* the payload object: three texts; a field that is missing reads as empty
Payload(iv, data, tag) == [iv |-> iv, data |-> data, tag |-> tag]

\* encryptData of the exporter
EncryptData(plaintextBuffer, key, iv) ==
  LET encrypted == CipherUpdate(key, iv, plaintextBuffer)
      authTag == AuthTag(key, iv, encrypted)
  IN Payload(EncodeBase64(<<iv>>), EncodeBase64(encrypted),
             EncodeBase64(<<authTag>>))

(* ----------------------------- normalization --------------------------- *)
\* normalizeCell
NormalizeCell(value) ==
  IF value.t = "null" THEN <<>> ELSE Trim(value.v)

NormalizeEntry(entry) ==
  [name |-> NormalizeCell(entry.name),
   manager |-> NormalizeCell(entry.manager),
   code |-> NormalizeCell(entry.code)]

\* FilterNamed that keeps every row
FilterNamed_KeepAll(rows) == rows

RECURSIVE FilterNamed(_)
\* filter((entry) => entry.name)
FilterNamed(rows) ==
  IF rows = <<>> THEN <<>>
  ELSE IF Head(rows).name # <<>>
       THEN <<Head(rows)>> \o FilterNamed(Tail(rows))
       ELSE FilterNamed(Tail(rows))

(* ------------------------------ the exporter --------------------------- *)
\* readClientsFromExcel, given the rows of the first sheet
ReadClientsFromExcel(sheet) ==
  FilterNamed([i \in 1..Len(sheet) |-> NormalizeEntry(sheet[i])])

\* the exporter's clients as JSON values
AsCells(cl) ==
  [i \in 1..Len(cl) |->
     Row(Cell(cl[i].name), Cell(cl[i].manager), Cell(cl[i].code))]

\* main of the exporter: the payload it writes for a sheet
Main(sheet, key, iv) ==
  LET exported == ReadClientsFromExcel(sheet)
      serialized == ToBytes(Stringify(AsCells(exported)))
  IN EncryptData(serialized, key, iv)

(* ---------------------------- the blob file ---------------------------- *)
\* states of the encrypted blob file: its payload, and how it came about
Blob(kind, payload) ==
  [kind |-> kind, iv |-> payload.iv, data |-> payload.data, tag |-> payload.tag]
BlobAbsent == Blob("absent", Payload(<<>>, <<>>, <<>>))

\* written by the exporter with the program's key
BlobNew == Blob("ok", Main(NewSheet, SecretBuffer, 3))
\* written by another tool with the program's key, rows as they were
BlobOld == Blob("ok", EncryptData(ToBytes(Stringify(OldRows)), SecretBuffer, 4))
\* the tag field lost
BlobNoField == Blob("nofield", [BlobOld EXCEPT !.tag = <<>>])
\* the tag of another key
BlobBadTag ==
  Blob("badtag", [BlobNew EXCEPT !.tag = Main(NewSheet, OtherSecret, 3).tag])
\* the plaintext is an object
BlobNotArray ==
  Blob("notarray", EncryptData(ToBytes(<<"{", "}">>), SecretBuffer, 3))

Blobs == {BlobAbsent, BlobNoField, BlobBadTag, BlobNotArray, BlobOld, BlobNew}

VARIABLES
  pc,              \* position of bootstrap
  authorizedUsers, \* the Set, in insertion order
  authFile,        \* authorized_users.json on disk
  pendingWrites,   \* fsPromises.writeFile calls in flight
  wstat,           \* history: "none", "clean" (writes, none failed), "failed",
                   \* "deleted" (file removed, no write failed)
  clients,         \* let clients
  fuse,            \* let fuse: null or the index built over a collection
  blob,            \* data/encrypted_clients.json on disk
  loadState,       \* history: "none", or how the last loadClients went
  dirExists,       \* data directory on disk
  watching,        \* fs.watch installed and alive
  reloadTimeout,   \* the pending timers armed by the watcher, oldest first,
                   \* each as the ticks since it was armed; the handle
                   \* reloadTimeout refers to the one armed last
  sinceEvent,      \* history: ticks since the last event for the blob file
  last             \* history: the last step and what it emitted

vars == <<pc, authorizedUsers, authFile, pendingWrites, wstat, clients, fuse,
          blob, loadState, dirExists, watching, reloadTimeout, sinceEvent,
          last>>

(* ------------------------- directory: load ----------------------------- *)
\* the fields of the payload the program reads
FieldsPresent(b) == b.iv # <<>> /\ b.data # <<>> /\ b.tag # <<>>

\* decipher.final(): the tag set with setAuthTag is the one of the data
TagValid(b) ==
  LET iv == DecodeBase64(b.iv)
      tag == DecodeBase64(b.tag)
  IN /\ Len(iv) = 1
     /\ tag = <<AuthTag(SecretBuffer, iv[1], DecodeBase64(b.data))>>

\* decrypted.toString('utf-8')
Decrypted(b) ==
  FromBytes(DecipherUpdate(SecretBuffer, DecodeBase64(b.iv)[1],
                           DecodeBase64(b.data)))

\* DecryptOutcome without the check of the authentication tag
DecryptOutcome_NoAuth(b) ==
  IF b.kind = "absent" THEN "missing"
  ELSE IF ~FieldsPresent(b) THEN "throws"
  ELSE IF JSONParse(Decrypted(b)).kind # "array" THEN "throws"
  ELSE "rows"

\* how far decryptClientsPayload gets: the file is missing (early return),
\* a step throws (a field missing, decipher.final() rejecting the tag,
\* JSON.parse failing, plaintext not an array), or the rows are reached
DecryptOutcome(b) ==
  IF b.kind = "absent" THEN "missing"
  ELSE IF ~FieldsPresent(b) THEN "throws"
  ELSE IF ~TagValid(b) THEN "throws"
  ELSE IF JSONParse(Decrypted(b)).kind # "array" THEN "throws"
  ELSE "rows"

\* decryptClientsPayload: [] for a missing file and for every thrown error
DecryptClientsPayload(b) ==
  IF DecryptOutcome(b) = "rows"
  THEN LET parsed == JSONParse(Decrypted(b)).rows
       IN FilterNamed([i \in 1..Len(parsed) |-> NormalizeEntry(parsed[i])])
  ELSE <<>>

\* history: whether a load reads a payload that is present and authentic
PayloadValid(b) == b.kind = "ok"
LoadOutcome(b) == IF PayloadValid(b) THEN "ok" ELSE "failed"

\* the value of fuse: null, or an index over the documents it was built from
NoFuse == [isnull |-> TRUE, docs |-> <<>>]
NewFuse(docs) == [isnull |-> FALSE, docs |-> docs]

\* decryptClientsPayload over the files of the model
DecryptedClients == [b \in Blobs |-> DecryptClientsPayload(b)]

\* loadClients: the pair (clients, fuse) it leaves
LoadClients(b) ==
  LET decryptedClients == DecryptedClients[b]
  IN [clients |-> decryptedClients,
      fuse |-> IF Len(decryptedClients) > 0 THEN NewFuse(decryptedClients) ELSE NoFuse]

(* ------------------------ directory: search ---------------------------- *)
RECURSIVE SelectSeq2(_, _)
\* the subsequence of s at the indices in idx, in order
SelectSeq2(s, idx) ==
  IF s = <<>> THEN <<>>
  ELSE LET n == Len(s)
           front == SelectSeq2(SubSeq(s, 1, n - 1), idx)
       IN IF n \in idx THEN Append(front, s[n]) ELSE front

Reverse(s) == [i \in 1..Len(s) |-> s[Len(s) + 1 - i]]

Take(s, n) == SubSeq(s, 1, IF Len(s) < n THEN Len(s) ELSE n)

\* FallbackHit without lowering the fields
FallbackHit_CaseSensitive(entry, loweredQuery) ==
  \/ Includes(entry.name, loweredQuery)
  \/ Includes(entry.manager, loweredQuery)
  \/ Includes(entry.code, loweredQuery)

\* the filter predicate of fallbackSearch
FallbackHit(entry, loweredQuery) ==
  \/ Includes(ToLowerCase(entry.name), loweredQuery)
  \/ Includes(ToLowerCase(entry.manager), loweredQuery)
  \/ Includes(ToLowerCase(entry.code), loweredQuery)

\* fallbackSearch
FallbackSearch(cl, query) ==
  LET loweredQuery == ToLowerCase(query)
      hits == {i \in 1..Len(cl) : FallbackHit(cl[i], loweredQuery)}
  IN Take(SelectSeq2(cl, hits), ResultLimit)

\* number of positions where two strings of equal length differ
Mismatches(a, b) == Cardinality({i \in 1..Len(a) : a[i] # b[i]})

\* a field matches a pattern when some window of it is within the threshold
FieldHit(field, pattern) ==
  LET p == ToLowerCase(pattern)
      f == ToLowerCase(field)
      allowed == (FuseThreshold * Len(p)) \div 100
  IN /\ f # <<>>
     /\ \E i \in 0..(Len(f) - Len(p)) :
           Mismatches(SubSeq(f, i + 1, i + Len(p)), p) <= allowed

FuseHits(docs, query) ==
  {i \in 1..Len(docs) :
     \/ FieldHit(docs[i].name, query)
     \/ FieldHit(docs[i].manager, query)
     \/ FieldHit(docs[i].code, query)}

\* fuse.search(query, {limit: 5}): the item lists the library may return.
\* The engine is a library: it is either tolerant (every document within the
\* threshold is a hit) or rejects everything; it ranks the hits in an order
\* of its own, here by position or by reverse position, and returns the
\* first limit of them.
FuseSearch(docs, query) ==
  LET ranked == SelectSeq2(docs, FuseHits(docs, query))
  IN {<<>>, Take(ranked, ResultLimit), Take(Reverse(ranked), ResultLimit)}

\* FindMatches without the test for a blank query
FindMatches_NoBlankTest(cl, fu, fz, query) ==
  IF fu.isnull THEN FallbackSearch(cl, query)
  ELSE IF Len(fz) > 0 THEN fz
  ELSE FallbackSearch(cl, query)

\* findMatches, given the list fz the library returned for the query
FindMatches(cl, fu, fz, query) ==
  IF Trim(query) = <<>> THEN <<>>
  ELSE IF fu.isnull THEN FallbackSearch(cl, query)
  ELSE IF Len(fz) > 0 THEN fz
  ELSE FallbackSearch(cl, query)

\* what fuse.search can return inside findMatches (not called without index)
EngineResults(fu, query) ==
  IF Trim(query) = <<>> \/ fu.isnull THEN {<<>>} ELSE FuseSearch(fu.docs, query)

(* --------------------------- outbound messages ------------------------- *)
Msg(to, kind, items) == [to |-> to, kind |-> kind, items |-> items]

\* formatResult: the 'no matches' text, or the enumerated list of the items
FormatResult(to, resultItems) ==
  IF Len(resultItems) = 0
  THEN Msg(to, "noMatches", <<>>)
  ELSE Msg(to, "results", resultItems)

\* HandleSearchMessage that formats the matches of a blank query too
HandleSearchMessage_NoBlankPrompt(cl, fu, fz, chatId, query) ==
  <<FormatResult(chatId, FindMatches(cl, fu, fz, query))>>

\* handleSearchMessage
HandleSearchMessage(cl, fu, fz, chatId, query) ==
  IF Trim(query) = <<>>
  THEN <<Msg(chatId, "emptyQuery", <<>>)>>
  ELSE <<FormatResult(chatId, FindMatches(cl, fu, fz, query))>>

(* ---------------------------- access registry -------------------------- *)
Has(users, id) == \E i \in 1..Len(users) : users[i] = id

RECURSIVE SetFromArray(_)
\* new Set(ids): first occurrence of each identity, in order
SetFromArray(ids) ==
  IF ids = <<>> THEN <<>>
  ELSE LET front == SetFromArray(SubSeq(ids, 1, Len(ids) - 1))
           x == ids[Len(ids)]
       IN IF Has(front, x) THEN front ELSE Append(front, x)

\* ensureAuthFile: a missing file is created as []
EnsureAuthFile(f) == IF f.kind = "absent" THEN AuthArray(<<>>) ELSE f

\* loadAuthorizedUsers: the Set it leaves, given the file it reads
LoadAuthorizedUsers(f) ==
  IF f.kind = "array" THEN SetFromArray(f.ids) ELSE <<>>

\* how the promise of addAuthorizedUser settles once its write has finished:
\* the catch around writeFile logs and returns
AddAuthorizedUserSettles(writeOk) == "fulfilled"

\* the .then/.catch of handleUnauthorizedMessage on that promise
AuthorizeReply(chatId, settled) ==
  IF settled = "fulfilled"
  THEN Msg(chatId, "granted", <<>>)
  ELSE Msg(chatId, "saveError", <<>>)

\* IsAccessCode without the trim
IsAccessCode_Exact(text) == text = ACCESS_CODE

\* the test of handleUnauthorizedMessage
IsAccessCode(text) == Trim(text) = ACCESS_CODE

(* ------------------------------ history -------------------------------- *)
\* the last step: the listener that ran, its input, whether the sender was
\* in the Set, whether loadClients ran, whether a registry write was started
\* or how one ended, what the search library returned, the messages sent,
\* for a refused access-code attempt how many were refused in a row, for a
\* watcher event the age of the timer it cancelled (-1: none), and for a
\* finished write whether it found the registry file missing
Step(act, id, text, auth, loaded, started, wok, fz, out) ==
  [act |-> act, id |-> id, text |-> text, auth |-> auth, loaded |-> loaded,
   started |-> started, wok |-> wok, fz |-> fz, out |-> out, nth |-> 0,
   cleared |-> -1, created |-> FALSE]

Quiet(act) == Step(act, "-", <<>>, FALSE, FALSE, FALSE, "none", <<>>, <<>>)

(* -------------------------------- Init --------------------------------- *)
Init ==
  /\ pc = "loadAuth"
  /\ authorizedUsers = <<>>
  /\ authFile \in InitialAuthFiles
  /\ pendingWrites = {}
  /\ wstat = "none"
  /\ clients = <<>>
  /\ fuse = NoFuse
  /\ blob \in Blobs
  /\ loadState = "none"
  /\ dirExists \in BOOLEAN
  /\ (blob # BlobAbsent => dirExists)
  /\ watching = FALSE
  /\ reloadTimeout = <<>>
  /\ sinceEvent = DebounceWindow
  /\ last = Quiet("init")

(* ------------------------------ bootstrap ------------------------------ *)
\* await loadAuthorizedUsers()
BootLoadAuth ==
  /\ pc = "loadAuth"
  /\ authFile' = EnsureAuthFile(authFile)
  /\ authorizedUsers' = LoadAuthorizedUsers(authFile')
  /\ pc' = "loadClients"
  /\ last' = Quiet("bootAuth")
  /\ UNCHANGED <<pendingWrites, wstat, clients, fuse, blob, loadState,
                 dirExists, watching, reloadTimeout,
                 sinceEvent>>

\* loadClients()
BootLoadClients ==
  /\ pc = "loadClients"
  /\ clients' = LoadClients(blob).clients
  /\ fuse' = LoadClients(blob).fuse
  /\ loadState' = LoadOutcome(blob)
  /\ pc' = "watch"
  /\ last' = [Quiet("bootLoad") EXCEPT !.loaded = TRUE]
  /\ UNCHANGED <<authorizedUsers, authFile, pendingWrites, wstat, blob,
                 dirExists, watching, reloadTimeout,
                 sinceEvent>>

\* scheduleDataReload(): without the data directory the collection is
\* emptied and no watcher is installed
ScheduleDataReload ==
  /\ pc = "watch"
  /\ IF ~dirExists
     THEN /\ clients' = <<>>
          /\ watching' = FALSE
     ELSE /\ clients' = clients
          /\ watching' = TRUE
  /\ pc' = "run"
  /\ last' = Quiet("bootWatch")
  /\ UNCHANGED <<authorizedUsers, authFile, pendingWrites, wstat, fuse, blob,
                 loadState, dirExists, reloadTimeout,
                 sinceEvent>>

(* --------------------------- inbound messages -------------------------- *)
\* bot.onText(/\/start/): runs for every text that contains the token, after
\* the 'message' listener of the same update
StartReply(users, chatId, text) ==
  IF ~Includes(text, StartToken) THEN <<>>
  ELSE IF Has(users, chatId)
       THEN <<Msg(chatId, "greetBack", <<>>)>>
       ELSE <<Msg(chatId, "greetNew", <<>>)>>

\* Route with the commands tested before the membership test
Route_CommandFirst(users, chatId, text) ==
  IF text = <<>> THEN "ignore"
  ELSE IF text = ReloadToken THEN "reload"
  ELSE IF ~Has(users, chatId) THEN "unauthorized"
  ELSE IF StartsWith(text, CommandPrefix) THEN "unknown"
  ELSE "search"

\* Route with blank texts ignored like empty ones
Route_IgnoreBlank(users, chatId, text) ==
  IF Trim(text) = <<>> THEN "ignore"
  ELSE IF ~Has(users, chatId) THEN "unauthorized"
  ELSE IF StartsWith(text, CommandPrefix)
       THEN IF text = ReloadToken THEN "reload" ELSE "unknown"
  ELSE "search"

\* the branch bot.on('message') takes
Route(users, chatId, text) ==
  IF text = <<>> THEN "ignore"
  ELSE IF ~Has(users, chatId) THEN "unauthorized"
  ELSE IF StartsWith(text, CommandPrefix)
       THEN IF text = ReloadToken THEN "reload" ELSE "unknown"
  ELSE "search"

\* AddToSet that starts a fresh Set
AddToSet_Replace(users, id) == <<id>>

\* authorizedUsers.add(normalizedId) for an identity the Set does not hold
AddToSet(users, id) == Append(users, id)

\* AddAuthorizedUser without the membership test
AddAuthorizedUser_NoCheck(userId) ==
  /\ authorizedUsers' = IF Has(authorizedUsers, userId) THEN authorizedUsers
                         ELSE AddToSet(authorizedUsers, userId)
  /\ pendingWrites' = pendingWrites \cup
       {[id |-> userId, content |-> authorizedUsers']}
  /\ wstat' = IF wstat = "none" THEN "clean" ELSE wstat

\* AddAuthorizedUser that starts the write and leaves the Set as it is
AddAuthorizedUser_WriteOnly(userId) ==
  /\ authorizedUsers' = authorizedUsers
  /\ pendingWrites' = pendingWrites \cup
       {[id |-> userId, content |-> AddToSet(authorizedUsers, userId)]}
  /\ wstat' = IF wstat = "none" THEN "clean" ELSE wstat

\* addAuthorizedUser up to its await: nothing for an identity the Set
\* holds, else the Set updated and the write of the whole Set started
AddAuthorizedUser(userId) ==
  IF Has(authorizedUsers, userId)
  THEN UNCHANGED <<authorizedUsers, pendingWrites, wstat>>
  ELSE /\ authorizedUsers' = AddToSet(authorizedUsers, userId)
       /\ pendingWrites' = pendingWrites \cup
            {[id |-> userId, content |-> authorizedUsers']}
       /\ wstat' = IF wstat = "none" THEN "clean" ELSE wstat

\* a call of addAuthorizedUser by itself
Authorize(userId) ==
  /\ pc = "run"
  /\ AddAuthorizedUser(userId)
  /\ last' = Step("authorize", userId, <<>>, Has(authorizedUsers, userId),
                  FALSE, pendingWrites' # pendingWrites, "none", <<>>, <<>>)
  /\ UNCHANGED <<pc, authFile, clients, fuse, blob, loadState, dirExists,
                 watching, reloadTimeout, sinceEvent>>

\* handleUnauthorizedMessage
UnauthorizedMessage(chatId, text) ==
  /\ IF IsAccessCode(text)
     THEN /\ AddAuthorizedUser(chatId)
          /\ last' = Step("message", chatId, text, FALSE, FALSE, TRUE, "none",
                          <<>>, StartReply(authorizedUsers', chatId, text))
     ELSE /\ UNCHANGED <<authorizedUsers, pendingWrites, wstat>>
          /\ last' = [Step("message", chatId, text, FALSE, FALSE, FALSE,
                           "none", <<>>,
                           <<Msg(chatId, "prompt", <<>>)>>
                             \o StartReply(authorizedUsers, chatId, text))
                        EXCEPT !.nth = IF last.nth < MaxWrong
                                       THEN last.nth + 1 ELSE last.nth]
  /\ UNCHANGED <<clients, fuse, loadState>>

\* the '/reload' branch
ReloadMessage(chatId, text) ==
  /\ clients' = LoadClients(blob).clients
  /\ fuse' = LoadClients(blob).fuse
  /\ loadState' = LoadOutcome(blob)
  /\ last' = Step("message", chatId, text, TRUE, TRUE, FALSE, "none", <<>>,
                  <<Msg(chatId, "reloaded", <<>>)>>
                    \o StartReply(authorizedUsers, chatId, text))
  /\ UNCHANGED <<authorizedUsers, pendingWrites, wstat>>

\* any other text with the command prefix
UnknownCommandMessage(chatId, text) ==
  /\ last' = Step("message", chatId, text, TRUE, FALSE, FALSE, "none", <<>>,
                  <<Msg(chatId, "unknown", <<>>)>>
                    \o StartReply(authorizedUsers, chatId, text))
  /\ UNCHANGED <<authorizedUsers, pendingWrites, wstat, clients, fuse,
                 loadState>>

\* handleSearchMessage with what the library returns
SearchMessage(chatId, text) ==
  /\ \E fz \in EngineResults(fuse, text) :
       last' = Step("message", chatId, text, TRUE, FALSE, FALSE, "none", fz,
                    HandleSearchMessage(clients, fuse, fz, chatId, text)
                      \o StartReply(authorizedUsers, chatId, text))
  /\ UNCHANGED <<authorizedUsers, pendingWrites, wstat, clients, fuse,
                 loadState>>

\* a non-text update: ignored, and onText has no text to match
IgnoredMessage(chatId, text) ==
  /\ last' = Step("message", chatId, text, Has(authorizedUsers, chatId),
                  FALSE, FALSE, "none", <<>>, <<>>)
  /\ UNCHANGED <<authorizedUsers, pendingWrites, wstat, clients, fuse,
                 loadState>>

\* one update from the chat transport: the 'message' listener, then onText
Message(chatId, text) ==
  /\ pc = "run"
  /\ LET route == Route(authorizedUsers, chatId, text)
     IN \/ route = "ignore" /\ IgnoredMessage(chatId, text)
        \/ route = "unauthorized" /\ UnauthorizedMessage(chatId, text)
        \/ route = "reload" /\ ReloadMessage(chatId, text)
        \/ route = "unknown" /\ UnknownCommandMessage(chatId, text)
        \/ route = "search" /\ SearchMessage(chatId, text)
  /\ UNCHANGED <<pc, authFile, blob, dirExists, watching, reloadTimeout,
                 sinceEvent>>

\* WriteDone that writes the new identity alone
WriteDone_OnlyNew(w, outcome) ==
  /\ w \in pendingWrites
  /\ pendingWrites' = pendingWrites \ {w}
  /\ authFile' = IF outcome = "ok" THEN AuthArray(<<w.id>>) ELSE authFile
  /\ wstat' = IF outcome = "ok" THEN wstat ELSE "failed"
  /\ last' = [Step("writeDone", w.id, <<>>, TRUE, FALSE, FALSE,
                   IF outcome = "ok" THEN "ok" ELSE "failed", <<>>,
                   <<AuthorizeReply(w.id,
                        AddAuthorizedUserSettles(outcome = "ok"))>>)
                EXCEPT !.created = (authFile.kind = "absent")]
  /\ UNCHANGED <<pc, authorizedUsers, clients, fuse, blob, loadState,
                 dirExists, watching, reloadTimeout, sinceEvent>>

\* a pending fsPromises.writeFile finishes; the promise chain of
\* handleUnauthorizedMessage then answers.  A failed write leaves the file
\* as it was.
WriteOutcomes == {"ok", "failed"}

WriteDone(w, outcome) ==
  /\ w \in pendingWrites
  /\ pendingWrites' = pendingWrites \ {w}
  /\ authFile' = IF outcome = "ok" THEN AuthArray(w.content) ELSE authFile
  /\ wstat' = IF outcome = "ok" THEN wstat ELSE "failed"
  /\ last' = [Step("writeDone", w.id, <<>>, TRUE, FALSE, FALSE,
                   IF outcome = "ok" THEN "ok" ELSE "failed", <<>>,
                   <<AuthorizeReply(w.id,
                        AddAuthorizedUserSettles(outcome = "ok"))>>)
                EXCEPT !.created = (authFile.kind = "absent")]
  /\ UNCHANGED <<pc, authorizedUsers, clients, fuse, blob, loadState,
                 dirExists, watching, reloadTimeout,
                 sinceEvent>>

(* ------------------------------ file watcher --------------------------- *)
FileNames == {"none", "other", "blob"}

\* clearTimeout(reloadTimeout): cancels the timer armed last, if it is
\* still pending
ClearTimeout(timers) ==
  IF timers = <<>> THEN <<>> ELSE SubSeq(timers, 1, Len(timers) - 1)

\* setTimeout(..., 500): one more pending timer, armed now
SetTimeout(timers) == Append(timers, 0)

\* the fs.watch callback that leaves a pending timer as it is
WatchEvent_KeepPending(filename) ==
  /\ pc = "run"
  /\ watching
  /\ reloadTimeout' = IF filename = "blob" /\ reloadTimeout = <<>>
                       THEN SetTimeout(reloadTimeout)
                       ELSE reloadTimeout
  /\ sinceEvent' = IF filename = "blob" THEN 0 ELSE sinceEvent
  /\ last' = [Quiet("watchEvent") EXCEPT
                !.id = filename,
                !.cleared = IF filename = "blob" /\ reloadTimeout # <<>>
                            THEN reloadTimeout[Len(reloadTimeout)] ELSE -1]
  /\ UNCHANGED <<pc, authorizedUsers, authFile, pendingWrites, wstat, clients,
                 fuse, blob, loadState, dirExists, watching>>

\* the fs.watch callback
WatchEvent(filename) ==
  /\ pc = "run"
  /\ watching
  /\ reloadTimeout' = IF filename = "blob"
                       THEN SetTimeout(ClearTimeout(reloadTimeout))
                       ELSE reloadTimeout
  /\ sinceEvent' = IF filename = "blob" THEN 0 ELSE sinceEvent
  /\ last' = [Quiet("watchEvent") EXCEPT
                !.id = filename,
                !.cleared = IF filename = "blob" /\ reloadTimeout # <<>>
                            THEN reloadTimeout[Len(reloadTimeout)] ELSE -1]
  /\ UNCHANGED <<pc, authorizedUsers, authFile, pendingWrites, wstat, clients,
                 fuse, blob, loadState, dirExists, watching>>

\* time passes: every pending timer and the last event get one tick older
Older(n) == IF n < DebounceWindow THEN n + 1 ELSE n

Tick ==
  /\ reloadTimeout # <<>>
  /\ \E i \in 1..Len(reloadTimeout) : reloadTimeout[i] < DebounceWindow
  /\ reloadTimeout' = [i \in 1..Len(reloadTimeout) |-> Older(reloadTimeout[i])]
  /\ sinceEvent' = Older(sinceEvent)
  /\ last' = Quiet("tick")
  /\ UNCHANGED <<pc, authorizedUsers, authFile, pendingWrites, wstat, clients,
                 fuse, blob, loadState, dirExists, watching>>

\* ReloadTimer that logs and loads nothing
ReloadTimer_Skip ==
  /\ reloadTimeout # <<>>
  /\ Head(reloadTimeout) = DebounceWindow
  /\ reloadTimeout' = Tail(reloadTimeout)
  /\ last' = Quiet("timer")
  /\ UNCHANGED <<pc, authorizedUsers, authFile, pendingWrites, wstat, clients,
                 fuse, blob, loadState, dirExists, watching, sinceEvent>>

\* the setTimeout callback: the oldest pending timer runs once its 500 ms
\* have passed
ReloadTimer ==
  /\ reloadTimeout # <<>>
  /\ Head(reloadTimeout) = DebounceWindow
  /\ clients' = LoadClients(blob).clients
  /\ fuse' = LoadClients(blob).fuse
  /\ loadState' = LoadOutcome(blob)
  /\ reloadTimeout' = Tail(reloadTimeout)
  /\ last' = [Quiet("timer") EXCEPT !.loaded = TRUE]
  /\ UNCHANGED <<pc, authorizedUsers, authFile, pendingWrites, wstat, blob,
                 dirExists, watching, sinceEvent>>

(* ------------------------------ environment ---------------------------- *)
\* the exporter (or anyone) replaces or removes the blob file
ChangeBlob(b) ==
  /\ b # blob
  /\ b = BlobAbsent \/ dirExists
  /\ blob' = b
  /\ last' = Quiet("blobChange")
  /\ UNCHANGED <<pc, authorizedUsers, authFile, pendingWrites, wstat, clients,
                 fuse, loadState, dirExists, watching, reloadTimeout,
                 sinceEvent>>

\* the data directory is removed with what it holds; a watcher on it is dead
RemoveDataDir ==
  /\ dirExists
  /\ dirExists' = FALSE
  /\ blob' = BlobAbsent
  /\ watching' = FALSE
  /\ last' = Quiet("dirRemove")
  /\ UNCHANGED <<pc, authorizedUsers, authFile, pendingWrites, wstat, clients,
                 fuse, loadState, reloadTimeout,
                 sinceEvent>>

\* the exporter's mkdir
CreateDataDir ==
  /\ ~dirExists
  /\ dirExists' = TRUE
  /\ last' = Quiet("dirCreate")
  /\ UNCHANGED <<pc, authorizedUsers, authFile, pendingWrites, wstat, clients,
                 fuse, blob, loadState, watching, reloadTimeout,
                 sinceEvent>>

\* someone removes the registry file while the program runs
DeleteAuthFile ==
  /\ pc = "run"
  /\ authFile.kind # "absent"
  /\ authFile' = AuthAbsent
  /\ wstat' = IF wstat = "failed" THEN "failed" ELSE "deleted"
  /\ last' = Quiet("authDelete")
  /\ UNCHANGED <<pc, authorizedUsers, pendingWrites, clients, fuse, blob,
                 loadState, dirExists, watching, reloadTimeout, sinceEvent>>

Next ==
  \/ BootLoadAuth
  \/ BootLoadClients
  \/ ScheduleDataReload
  \/ \E chatId \in Ids, text \in Texts : Message(chatId, text)
  \/ \E w \in pendingWrites, outcome \in WriteOutcomes : WriteDone(w, outcome)
  \/ \E filename \in FileNames : WatchEvent(filename)
  \/ Tick
  \/ ReloadTimer
  \/ \E b \in Blobs : ChangeBlob(b)
  \/ RemoveDataDir
  \/ CreateDataDir

Spec == Init /\ [][Next]_vars

\* the program with its registry file exposed to removal, the data
\* directory left alone
RegistryNext ==
  \/ BootLoadAuth
  \/ BootLoadClients
  \/ ScheduleDataReload
  \/ \E chatId \in Ids, text \in Texts : Message(chatId, text)
  \/ \E w \in pendingWrites, outcome \in WriteOutcomes : WriteDone(w, outcome)
  \/ DeleteAuthFile

RegistrySpec == Init /\ [][RegistryNext]_vars

\* addAuthorizedUser called for any identity, in the Set or not
AuthorizeNext ==
  \/ BootLoadAuth
  \/ BootLoadClients
  \/ ScheduleDataReload
  \/ \E userId \in Ids : Authorize(userId)
  \/ \E w \in pendingWrites, outcome \in WriteOutcomes : WriteDone(w, outcome)

AuthorizeSpec == Init /\ [][AuthorizeNext]_vars

\* the same program with one identity; time passes and the timer callback
\* runs once its delay has passed
LiveIds == {"u1"}

LiveNext ==
  \/ BootLoadAuth
  \/ BootLoadClients
  \/ ScheduleDataReload
  \/ \E chatId \in LiveIds, text \in Texts : Message(chatId, text)
  \/ \E w \in pendingWrites, outcome \in WriteOutcomes : WriteDone(w, outcome)
  \/ \E filename \in FileNames : WatchEvent(filename)
  \/ Tick
  \/ ReloadTimer
  \/ \E b \in Blobs : ChangeBlob(b)
  \/ RemoveDataDir
  \/ CreateDataDir

LiveSpec ==
  Init /\ [][LiveNext]_vars /\ WF_vars(Tick) /\ WF_vars(ReloadTimer)

TypeOK ==
  /\ pc \in {"loadAuth", "loadClients", "watch", "run"}
  /\ last.nth \in 0..MaxWrong
  /\ reloadTimeout \in Seq(0..DebounceWindow)
  /\ sinceEvent \in 0..DebounceWindow
  /\ wstat \in {"none", "clean", "failed", "deleted"}

(* ------------------------------- claims -------------------------------- *)
InSet(users, id) == id \in Range(users)
Kinds(out) == {out[i].kind : i \in 1..Len(out)}
\* a step of the 'message' listener with a text, by an identity outside the Set
UnauthorizedStep ==
  /\ last'.act = "message"
  /\ last'.text # <<>>
  /\ ~InSet(authorizedUsers, last'.id)

\* C1: a message from an identity that is not in the authorized set when it
\* is handled sends no search results and rebuilds nothing, '/reload'
\* included; it only elicits an access-code prompt or authorizes the identity
C1_UnauthorizedGetsNoService ==
  [][UnauthorizedStep =>
       /\ clients' = clients
       /\ fuse' = fuse
       /\ loadState' = loadState
       /\ ~last'.loaded
       /\ last'.fz = <<>>
       /\ \/ Kinds(last'.out) \subseteq {"prompt", "greetNew"}
          \/ /\ last'.out = <<>>
             /\ InSet(authorizedUsers', last'.id)]_vars

\* an unauthorized '/reload' arrived while the file holds another collection
C1_Witness ==
  /\ last.act = "message"
  /\ ~InSet(authorizedUsers, last.id)
  /\ last.text = ReloadToken
  /\ last.out # <<>>
  /\ DecryptedClients[blob] # clients

\* C2 as stated: an unauthorized identity becomes authorized exactly when
\* its text equals the access code character for character
C2_ExactMatchOnly ==
  [][UnauthorizedStep =>
       (InSet(authorizedUsers', last'.id) <=> last'.text = ACCESS_CODE)]_vars

\* C2 amended: an unauthorized identity becomes authorized exactly when its
\* text with leading and trailing whitespace removed equals the access code
C2_TrimmedMatchOnly ==
  [][UnauthorizedStep =>
       (InSet(authorizedUsers', last'.id) <=> Trim(last'.text) = ACCESS_CODE)]_vars

\* the code surrounded by blanks has just authorized its sender
C2_Witness ==
  /\ last.act = "message"
  /\ last.started
  /\ last.text # ACCESS_CODE
  /\ InSet(authorizedUsers, last.id)

\* C3: the authorized set only grows, whatever step is taken
C3_SetOnlyGrows ==
  [][Range(authorizedUsers) \subseteq Range(authorizedUsers')]_vars

\* two identities are in the set after a registry write has failed
C3_Witness ==
  /\ pc = "run"
  /\ wstat = "failed"
  /\ Cardinality(Range(authorizedUsers)) = 2
  /\ last.act = "writeDone"

\* the frame of a refused attempt: nothing of the registry moves, one prompt
RefusedFrame ==
  /\ authorizedUsers' = authorizedUsers
  /\ authFile' = authFile
  /\ pendingWrites' = pendingWrites
  /\ ~last'.started
  /\ Msg(last'.id, "prompt", <<>>) \in Range(last'.out)

\* C4 as stated: any non-empty message other than the access code leaves the
\* set and the registry file alone, starts no write and elicits the prompt
C4_OtherTextRefused ==
  [][(UnauthorizedStep /\ last'.text # ACCESS_CODE) => RefusedFrame]_vars

\* C4 amended: any non-empty message whose text, with leading and trailing
\* whitespace removed, is not the access code leaves the set and the registry
\* file alone, starts no write and elicits the prompt, however many refused
\* attempts came before
C4_OtherTrimmedTextRefused ==
  [][(UnauthorizedStep /\ Trim(last'.text) # ACCESS_CODE) => RefusedFrame]_vars

\* a refused attempt that follows refused attempts, while another identity
\* is authorized
C4_Witness ==
  /\ last.act = "message"
  /\ last.nth >= 2
  /\ ~InSet(authorizedUsers, last.id)
  /\ authorizedUsers # <<>>

\* C5: once every started registry write has completed successfully, the
\* registry file holds exactly the identities of the authorized set
C5_NoLostUpdate ==
  (pendingWrites = {} /\ wstat = "clean") =>
     /\ authFile.kind = "array"
     /\ Range(authFile.ids) = Range(authorizedUsers)

\* C6: when the registry write fails the identity is in the set and its
\* caller observes the failure instead of a normal completion
C6_WriteErrorSurfaced ==
  (last.act = "writeDone" /\ last.wok = "failed") =>
     /\ InSet(authorizedUsers, last.id)
     /\ last.out = <<Msg(last.id, "saveError", <<>>)>>

\* C7: whenever a search can run the index is absent with an empty
\* collection, or it was built over exactly the current collection
C7_IndexMatchesCollection ==
  pc = "run" =>
     IF fuse.isnull THEN clients = <<>> ELSE fuse.docs = clients

\* the last step handled a search query of an authorized identity
SearchStep ==
  /\ last.act = "message"
  /\ last.auth
  /\ ~StartsWith(last.text, CommandPrefix)
  /\ Trim(last.text) # <<>>

\* the records that step answered with
Result == IF last.out = <<>> THEN <<>> ELSE last.out[1].items

Contains(field, query) == Includes(ToLowerCase(field), ToLowerCase(query))
NameHit(i) == Contains(clients[i].name, last.text)
AnyHit(i) ==
  \/ Contains(clients[i].name, last.text)
  \/ Contains(clients[i].manager, last.text)
  \/ Contains(clients[i].code, last.text)

\* C8 as stated: a record whose name contains the query and that the fuzzy
\* engine did not return is still in the result
C8_SubstringNeverLost ==
  SearchStep =>
    \A i \in 1..Len(clients) :
      (NameHit(i) /\ clients[i] \notin Range(last.fz))
        => clients[i] \in Range(Result)

\* C8 amended: when the fuzzy engine returns nothing, a record whose name
\* contains the query is in the result if it is among the first five records
\* with the query in name, manager or code; when the engine returns
\* anything, the result is the engine's list
C8_FallbackKeepsFirstHits ==
  SearchStep =>
    /\ last.fz # <<>> => Result = last.fz
    /\ last.fz = <<>> =>
         \A i \in 1..Len(clients) :
           (/\ NameHit(i)
            /\ Cardinality({j \in 1..i : AnyHit(j)}) <= ResultLimit)
             => clients[i] \in Range(Result)

\* the engine found nothing over an existing index and the fallback served
\* a record by its name
C8_Witness ==
  /\ SearchStep
  /\ ~fuse.isnull
  /\ last.fz = <<>>
  /\ \E i \in 1..Len(clients) : NameHit(i) /\ clients[i] \in Range(Result)

\* C9: a load that finds the payload missing or invalid leaves an empty
\* collection without index, touches neither the program position nor the
\* registry, and until a load succeeds no search sends records
C9_FailedLoadDegrades ==
  [][/\ (last'.loaded /\ ~PayloadValid(blob)) =>
          /\ clients' = <<>>
          /\ fuse' = NoFuse
          /\ authorizedUsers' = authorizedUsers
          /\ authFile' = authFile
          /\ pendingWrites' = pendingWrites
          /\ pc' \in {"watch", "run"}
     /\ (loadState = "failed" /\ last'.act = "message" /\ ~last'.loaded) =>
          /\ "results" \notin Kinds(last'.out)
          /\ clients' = <<>>
          /\ pc' = "run"]_vars

\* a query that the rows of a payload with a bad tag would match was
\* answered with 'no matches'
C9_Witness ==
  /\ loadState = "failed"
  /\ blob.kind = "badtag"
  /\ SearchStep
  /\ last.text = <<"A">>
  /\ Kinds(last.out) = {"noMatches"}

\* the documents a search is answered from
Served == IF fuse.isnull THEN clients ELSE fuse.docs

\* a change event for the blob file is delivered
BlobEvent == last'.act = "watchEvent" /\ last'.id = "blob"

\* C10: unless change events for the blob file keep arriving for ever, a
\* pending rebuild timer eventually runs and loads the content the file
\* then has; every load installs exactly the file's content with an
\* index over it; the index changes at loads only; and every search answers
\* from the one collection that was installed last
C10_RebuildFollowsChange ==
  /\ \/ []<><<BlobEvent>>_vars
     \/ (reloadTimeout # <<>>) ~> (last.act = "timer" /\ last.loaded
                                    /\ clients = DecryptedClients[blob])
  /\ [][/\ last'.loaded =>
             /\ clients' = DecryptedClients[blob]
             /\ fuse' = IF clients' = <<>> THEN NoFuse ELSE NewFuse(clients')
        /\ fuse' # fuse => last'.loaded
        /\ SearchStep' => Range(Result') \subseteq Range(Served)]_vars

\* the timer has just installed the new content
C10_Witness ==
  /\ last.act = "timer"
  /\ last.loaded
  /\ blob = BlobNew
  /\ clients = DecryptedClients[blob]
  /\ ~fuse.isnull

\* C11: at most one rebuild timer is pending; an event for the blob file
\* cancels the pending timer and starts a full window; the timer's rebuild
\* runs only when a full window has passed since the last such event, loads
\* once and leaves no timer pending; and unless such events keep arriving
\* for ever, a pending timer ends in a rebuild
C11_DebounceOneRebuild ==
  /\ [](Len(reloadTimeout) <= 1)
  /\ [][/\ BlobEvent => reloadTimeout' = <<0>>
        /\ (last'.act = "watchEvent" /\ ~BlobEvent)
             => reloadTimeout' = reloadTimeout
        /\ last'.act = "timer" =>
             /\ reloadTimeout # <<>>
             /\ sinceEvent = DebounceWindow
             /\ last'.loaded
             /\ reloadTimeout' = <<>>
        /\ last'.loaded => last'.act \in {"timer", "message", "bootLoad"}]_vars
  /\ \/ []<><<BlobEvent>>_vars
     \/ (reloadTimeout # <<>>) ~> (last.act = "timer" /\ reloadTimeout = <<>>)

\* an event for the blob file has just cancelled a timer that had run for
\* part of its window, and started a new one
C11_Witness ==
  /\ last.act = "watchEvent"
  /\ last.id = "blob"
  /\ last.cleared = 1
  /\ reloadTimeout = <<0>>
  /\ sinceEvent = 0

\* queries that are empty or hold whitespace only
BlankQueries == {<<>>, <<" ">>, <<" ", "\t">>}

\* some field of some record of the collection contains the query
SubstringHit(cl, query) ==
  \E i \in 1..Len(cl) :
    \/ Contains(cl[i].name, query)
    \/ Contains(cl[i].manager, query)
    \/ Contains(cl[i].code, query)

\* C12: over the collection and index of every state, findMatches returns
\* nothing for an empty or blank query, and nothing for a query for which
\* the fuzzy engine returns nothing and no field of any record contains it;
\* a search message of that kind is answered without any record
C12_NoHitNoResult ==
  /\ \A q \in BlankQueries : \A fz \in EngineResults(fuse, q) :
       FindMatches(clients, fuse, fz, q) = <<>>
  /\ \A q \in Texts : \A fz \in EngineResults(fuse, q) :
       (fz = <<>> /\ ~SubstringHit(clients, q))
         => FindMatches(clients, fuse, fz, q) = <<>>
  /\ (last.act = "message" /\ last.auth /\ last.text # <<>>
        /\ Trim(last.text) = <<>>) => Kinds(last.out) = {"emptyQuery"}
  /\ (SearchStep /\ last.fz = <<>> /\ ~SubstringHit(clients, last.text))
       => (Result = <<>> /\ Kinds(last.out) = {"noMatches"})

\* over a non-empty collection with an index, a query that nothing matches
\* was answered with 'no matches'
C12_Witness ==
  /\ SearchStep
  /\ clients # <<>>
  /\ ~fuse.isnull
  /\ FuseHits(fuse.docs, last.text) = {}
  /\ ~SubstringHit(clients, last.text)
  /\ Kinds(last.out) = {"noMatches"}

\* the text of a raw cell, and a text without its outer whitespace
CellText(cell) == IF cell.t = "null" THEN <<>> ELSE cell.v
Inked(s) == {i \in 1..Len(s) : s[i] \notin WhiteSpace}
Stripped(s) ==
  IF Inked(s) = {} THEN <<>>
  ELSE SubSeq(s, CHOOSE i \in Inked(s) : \A j \in Inked(s) : i <= j,
                 CHOOSE i \in Inked(s) : \A j \in Inked(s) : i >= j)

\* the records a list of raw rows stands for: the rows with a name, in
\* order, every field without its outer whitespace
ExpectedRecords(rows) ==
  SelectSeq2([i \in 1..Len(rows) |->
                [name |-> Stripped(CellText(rows[i].name)),
                 manager |-> Stripped(CellText(rows[i].manager)),
                 code |-> Stripped(CellText(rows[i].code))]],
             {i \in 1..Len(rows) : Inked(CellText(rows[i].name)) # {}})

Sheets == {<<>>, OldRows, NewSheet}

\* for every sheet and nonce, under the program's key: deciphering the
\* exporter's ciphertext gives the serialized bytes back, the tag it wrote
\* is accepted, loading the written payload gives the sheet's records, and
\* normalizing those again changes nothing
RoundTrip ==
  \A sheet \in Sheets, iv \in Nonces :
    LET exported == ReadClientsFromExcel(sheet)
        serialized == ToBytes(Stringify(AsCells(exported)))
        written == Blob("ok", Main(sheet, SecretBuffer, iv))
        loaded == DecryptClientsPayload(written)
    IN /\ DecipherUpdate(SecretBuffer, iv, DecodeBase64(written.data))
            = serialized
       /\ FromBytes(serialized) = Stringify(AsCells(exported))
       /\ TagValid(written)
       /\ loaded = ExpectedRecords(sheet)
       /\ loaded = exported
       /\ ReadClientsFromExcel(AsCells(loaded)) = loaded

\* C13: export and load under the same key are a round trip, and a load of
\* the file the exporter wrote for a sheet installs exactly the sheet's
\* records with a name, trimmed, in order
C13_ExportLoadRoundTrip ==
  /\ RoundTrip
  /\ (last.loaded /\ blob = BlobNew) => clients = ExpectedRecords(NewSheet)

\* a load has installed the file the exporter wrote for a sheet with an
\* unnamed row, padded cells and a quote character
C13_Witness ==
  /\ last.loaded
  /\ blob = BlobNew
  /\ clients = ExpectedRecords(NewSheet)
  /\ Len(clients) < Len(NewSheet)
  /\ \E i \in 1..Len(clients) : Quote \in Range(clients[i].code)
  /\ clients # [i \in 1..Len(clients) |->
                  [name |-> CellText(NewSheet[i].name),
                   manager |-> CellText(NewSheet[i].manager),
                   code |-> CellText(NewSheet[i].code)]]

\* C14: whatever the state of the registry file, removed included, the
\* access code adds a new identity to the set and starts a write of the
\* whole set of that moment; every pending write holds the set as it was
\* when its identity was added; and a write that succeeds leaves a file with
\* exactly that content, earlier identities included
C14_WriteRecreatesFile ==
  /\ [](\A w \in pendingWrites :
          /\ w.content = SubSeq(authorizedUsers, 1, Len(w.content))
          /\ w.content # <<>>
          /\ w.content[Len(w.content)] = w.id)
  /\ [][/\ (UnauthorizedStep /\ Trim(last'.text) = ACCESS_CODE) =>
             /\ authorizedUsers' = Append(authorizedUsers, last'.id)
             /\ pendingWrites' = pendingWrites \cup
                  {[id |-> last'.id, content |-> authorizedUsers']}
             /\ authFile' = authFile
        /\ (last'.act = "writeDone" /\ last'.wok = "ok") =>
             \E w \in pendingWrites :
               /\ w.id = last'.id
               /\ pendingWrites' = pendingWrites \ {w}
               /\ authFile' = AuthArray(w.content)]_vars

\* after one identity's write failed and the file was removed, the write of
\* a second identity has created the file with both
C14_Witness ==
  /\ last.act = "writeDone"
  /\ last.wok = "ok"
  /\ last.created
  /\ wstat = "failed"
  /\ authFile = AuthArray(authorizedUsers)
  /\ Len(authorizedUsers) = 2
  /\ last.id = authorizedUsers[2]

\* C15: a call of addAuthorizedUser for an identity the set holds changes
\* neither the set nor the registry file and starts no write, so a second
\* call for an identity leaves what the first call left
C15_AuthorizeIdempotent ==
  [][(last'.act = "authorize" /\ InSet(authorizedUsers, last'.id)) =>
       /\ authorizedUsers' = authorizedUsers
       /\ authFile' = authFile
       /\ pendingWrites' = pendingWrites
       /\ ~last'.started]_vars

\* addAuthorizedUser was called again for an identity whose write from the
\* first call is still pending, while the set has grown since
C15_Witness ==
  /\ last.act = "authorize"
  /\ last.auth
  /\ ~last.started
  /\ \E w \in pendingWrites : w.id = last.id /\ w.content # authorizedUsers

\* a text of the model's characters without outer whitespace
TrimmedString(s) == s \in Seq(Range(Alphabet)) /\ Stripped(s) = s

\* C16: every record of the collection has a non-empty trimmed name and a
\* manager and a code that are trimmed strings, possibly empty; and a load
\* of an authentic payload installs, in order, one record for each input
\* row whose name is not blank, with missing or blank cells as empty strings
C16_RecordsNormalized ==
  /\ \A i \in 1..Len(clients) :
       /\ DOMAIN clients[i] = {"name", "manager", "code"}
       /\ clients[i].name # <<>>
       /\ TrimmedString(clients[i].name)
       /\ TrimmedString(clients[i].manager)
       /\ TrimmedString(clients[i].code)
  /\ (last.loaded /\ blob = BlobOld) => clients = ExpectedRecords(OldRows)
  /\ (last.loaded /\ blob = BlobNew) => clients = ExpectedRecords(NewSheet)

\* a reload has installed rows of which one had a blank name, one no code
\* and one no manager
C16_Witness ==
  /\ last.loaded
  /\ last.act \in {"timer", "message"}
  /\ blob = BlobOld
  /\ Len(clients) = 2
  /\ Len(OldRows) = 3
  /\ clients[1].code = <<>>
  /\ clients[2].manager = <<>>
  /\ clients[2].code = <<"2">>

\* a step of the 'message' listener for a sender the Set holds
AuthorizedStep == last'.act = "message" /\ last'.auth

\* the listener left the directory, the Set and the registry alone
NothingTouched ==
  /\ ~last'.loaded
  /\ UNCHANGED <<clients, fuse, loadState, authorizedUsers, pendingWrites,
                 authFile>>

\* the first message of the step is the answer to a search for its text
SearchAnswered ==
  /\ NothingTouched
  /\ last'.fz \in EngineResults(fuse, last'.text)
  /\ last'.out # <<>>
  /\ last'.out[1] = FormatResult(last'.id,
                       FindMatches(clients, fuse, last'.fz, last'.text))
  /\ last'.out[1].kind \in {"results", "noMatches"}

\* the routing of a text from an authorized sender, where isQuery says
\* whether a text that is neither empty nor a command is a search query
RoutedAs(isQuery) ==
  LET text == last'.text
      out == last'.out
  IN IF text = <<>> THEN out = <<>> /\ NothingTouched
     ELSE IF text = ReloadToken
          THEN /\ last'.loaded
               /\ clients' = DecryptedClients[blob]
               /\ fuse' = LoadClients(blob).fuse
               /\ out = <<Msg(last'.id, "reloaded", <<>>)>>
               /\ UNCHANGED <<authorizedUsers, pendingWrites, authFile>>
     ELSE IF StartsWith(text, CommandPrefix)
          THEN /\ NothingTouched
               /\ last'.fz = <<>>
               /\ out # <<>>
               /\ out[1] = Msg(last'.id, "unknown", <<>>)
               /\ \A i \in 1..Len(out) :
                    out[i].kind \notin {"results", "noMatches",
                                        "emptyQuery", "reloaded"}
     ELSE IF isQuery THEN SearchAnswered
     ELSE /\ NothingTouched
          /\ last'.fz = <<>>
          /\ out = <<Msg(last'.id, "emptyQuery", <<>>)>>

\* C17 as stated: from an authorized sender the reload token rebuilds the
\* index once and is acknowledged, any other command gets the 'unknown
\* command' response without search or rebuild, every other non-empty text
\* is answered with the result list or the 'no matches' message, and an
\* empty text gets no response and changes nothing
C17_NonEmptyTextSearched ==
  [][AuthorizedStep => RoutedAs(TRUE)]_vars

\* C17 amended: as stated, except that only a text that is not blank after
\* trimming is searched; a text of whitespace alone is answered with the
\* request to send a query, and no search is made
C17_NonBlankTextSearched ==
  [][AuthorizedStep => RoutedAs(Trim(last'.text) # <<>>)]_vars

\* an authorized sender sent whitespace alone while the directory was loaded
C17_Witness ==
  /\ last.act = "message"
  /\ last.auth
  /\ last.text = <<" ">>
  /\ last.out = <<Msg(last.id, "emptyQuery", <<>>)>>
  /\ clients # <<>>

\* the responses one update leads to: those its listeners send at once and
\* the one the promise of a registry write it started sends later
ResponsesTo(step) == Len(step.out) + (IF step.started THEN 1 ELSE 0)

\* C18: every update with a non-empty text, '/start' included, from an
\* authorized or an unauthorized sender, leads to exactly one response, sent
\* to the sender
C18_OneResponsePerEvent ==
  [][/\ (last'.act = "message" /\ last'.text # <<>>) =>
          /\ ResponsesTo(last') = 1
          /\ \A i \in 1..Len(last'.out) : last'.out[i].to = last'.id
     /\ (last'.act = "writeDone") =>
          /\ Len(last'.out) = 1
          /\ last'.out[1].to = last'.id]_vars

\* the registry writes of an identity that have not finished
PendingFor(writes, id) == {w \in writes : w.id = id}

\* the confirmations among the messages of a step
Confirmations(step) ==
  {i \in 1..Len(step.out) : step.out[i].kind = "granted"}

\* C19: once the listeners run, an identity enters the Set in the step that takes its access code,
\* which starts its one registry write and confirms nothing; the one
\* confirmation is sent by the step in which that write finishes, well or
\* not; and while the write is pending a message of the identity, the access
\* code included, is routed as an authorized one and adds no identity,
\* starts no write and sends no confirmation
C19_OneConfirmationAfterWrite ==
  [][pc = "run" =>
     /\ \A id \in Ids :
          /\ Cardinality(PendingFor(pendingWrites', id)) <= 1
          /\ InSet(authorizedUsers, id) => InSet(authorizedUsers', id)
          /\ (~InSet(authorizedUsers, id) /\ last'.act = "message"
                /\ last'.id = id /\ IsAccessCode(last'.text)) =>
                /\ InSet(authorizedUsers', id)
          /\ (~InSet(authorizedUsers, id) /\ InSet(authorizedUsers', id)) =>
                /\ last'.act = "message" /\ last'.id = id
                /\ last'.started
                /\ PendingFor(pendingWrites, id) = {}
                /\ Cardinality(PendingFor(pendingWrites', id)) = 1
                /\ Confirmations(last') = {}
          /\ PendingFor(pendingWrites', id) # PendingFor(pendingWrites, id) =>
                \/ ~InSet(authorizedUsers, id) /\ InSet(authorizedUsers', id)
                \/ /\ last'.act = "writeDone" /\ last'.id = id
                   /\ PendingFor(pendingWrites', id) = {}
                   /\ last'.out = <<Msg(id, "granted", <<>>)>>
     /\ Confirmations(last') # {} =>
          /\ last'.act = "writeDone"
          /\ last'.wok \in {"ok", "failed"}
          /\ PendingFor(pendingWrites, last'.id) # {}
          /\ PendingFor(pendingWrites', last'.id) = {}
     /\ (/\ last'.act = "message" /\ last'.text # <<>>
         /\ PendingFor(pendingWrites, last'.id) # {}) =>
          /\ last'.auth
          /\ ~last'.started
          /\ UNCHANGED <<authorizedUsers, pendingWrites, authFile>>
          /\ Confirmations(last') = {}
          /\ IsAccessCode(last'.text) =>
                last'.out = <<FormatResult(last'.id,
                    FindMatches(clients, fuse, last'.fz, last'.text))>>]_vars

\* an identity whose registry write is pending sent the access code again
\* and was answered as for a search
C19_Witness ==
  /\ last.act = "message"
  /\ last.auth
  /\ IsAccessCode(last.text)
  /\ PendingFor(pendingWrites, last.id) # {}
  /\ last.out[1].kind \in {"results", "noMatches"}
  /\ ~last.started

\* how often a record occurs in a list
Occurrences(list, r) == Cardinality({i \in 1..Len(list) : list[i] = r})

\* the records with the query in a field, in the order of the collection
SubstringHits == SelectSeq2(clients, {i \in 1..Len(clients) : AnyHit(i)})

\* C20: the result of a search has at most five records, each of them a
\* record of the current collection and none more often than the collection
\* has it; and when the engine returned nothing or there is no index, it is
\* the first records, up to five and in the order of the collection, that
\* have the query in name, manager or code, whatever the case of letters
C20_ResultFromCollection ==
  SearchStep =>
    /\ Len(Result) <= ResultLimit
    /\ \A i \in 1..Len(Result) :
         /\ Result[i] \in Range(clients)
         /\ Occurrences(Result, Result[i]) <= Occurrences(clients, Result[i])
    /\ (last.fz = <<>>) => Result = Take(SubstringHits, ResultLimit)

====
